---- MODULE Spec2Model ----
(***************************************************************************)
(* Model of the commit actor of exodus-gw (exodus_gw/worker/publish.py):   *)
(* the _BatchWriter producer/consumer pipeline, the CommitBase /           *)
(* CommitPhase1 / CommitPhase2 state machine and the dramatiq actor        *)
(* `commit` that drives them.  One behaviour of the model is one run of    *)
(* the actor for one broker message.                                       *)
(***************************************************************************)
EXTENDS Integers, Sequences, FiniteSets, Bags, TLC

(***************************************************************************)
(* Bounds of the model.  The settings are configuration values of the      *)
(* program (settings.py); the model runs them at small values.            *)
(***************************************************************************)
MaxItems == 3

item_yield_size == 2

write_batch_size == 1

write_max_workers == 2

write_queue_size == 1

ItemIds == 1..MaxItems

(***************************************************************************)
(* Enumerations (exodus_gw/schemas.py is imported by publish.py:26).       *)
(***************************************************************************)
TaskStates == {"NOT_STARTED", "IN_PROGRESS", "COMPLETE", "FAILED"}

PublishStates == {"PENDING", "COMMITTING", "COMMITTED", "FAILED"}

CommitModes == {"phase1", "phase2"}

(***************************************************************************)
(* Settings snapshot (settings.py).                                        *)
(***************************************************************************)
autoindex_filename == ".__exodus_autoindex"

entry_point_files ==
    {"repomd.xml", "repomd.xml.asc", "PULP_MANIFEST", "PULP_MANIFEST.asc",
     "treeinfo", "extra_files.json"}

cdn_flush_on_commit == TRUE

from_date == "2024-01-01T00:00:00Z"

env == "test"

(***************************************************************************)
(* The items a publish can hold.  A web_uri is <<directory, basename>>.    *)
(* The table is in ascending order of web_uri, so ORDER BY web_uri is the  *)
(* order of the ids.                                                       *)
(***************************************************************************)
DirTable == <<"d", "d", "d", "e", "kickstart", "kickstart">>

NameTable ==
    <<".__exodus_autoindex", "data.rpm", "repomd.xml", "y.rpm", "ks.cfg", "z.rpm">>

RpmNames == {"data.rpm", "y.rpm", "z.rpm"}

Slot(i) == ((i - 1) % Len(DirTable)) + 1

web_uri(i) == <<DirTable[Slot(i)], NameTable[Slot(i)]>>

basename(uri) == uri[2]

dirname(uri) == uri[1]

\* the default pattern /kickstart/.*(?<!\.rpm)$ on a <<directory, basename>> path
phase2_patterns(uri) == uri[1] = "kickstart" /\ uri[2] \notin RpmNames

is_phase2_by_name(i) ==
    LET name == basename(web_uri(i))
    IN  \/ name = autoindex_filename
        \/ name \in entry_point_files

is_phase2(i) ==
    LET name == basename(web_uri(i))
    IN  \/ name = autoindex_filename
        \/ name \in entry_point_files
        \/ phase2_patterns(web_uri(i))

(***************************************************************************)
(* Sequence helpers.                                                       *)
(***************************************************************************)
Range(s) == {s[k] : k \in 1..Len(s)}

Min(a, b) == IF a < b THEN a ELSE b

\* the ids of a set, ascending
RECURSIVE SortedSeq(_)
SortedSeq(S) ==
    IF S = {} THEN <<>>
    ELSE LET m == CHOOSE x \in S : \A y \in S : x <= y
         IN  <<m>> \o SortedSeq(S \ {m})

\* s[index : index + size] of Python, for a 0-based index
Slice(s, index, size) == SubSeq(s, index + 1, Min(Len(s), index + size))

\* a sequence cut into chunks of at most `size` elements
RECURSIVE Chunks(_, _)
Chunks(s, size) ==
    IF Len(s) = 0 THEN <<>>
    ELSE <<Slice(s, 0, size)>> \o Chunks(SubSeq(s, size + 1, Len(s)), size)

RECURSIVE Flatten(_)
Flatten(ss) == IF Len(ss) = 0 THEN <<>> ELSE Head(ss) \o Flatten(Tail(ss))

(***************************************************************************)
(* State.                                                                  *)
(***************************************************************************)
VARIABLES
    commit_mode,        \* "phase1" | "phase2": the class of commit_obj
    task,               \* [state, expired]: the CommitTask row in the session
    publish_state,      \* Publish.state in the session
    item,               \* [ItemIds -> [present, dirty, object_key]]: the items rows
    published_paths,    \* set of <<env, path>> rows upserted in the session
    db,                 \* what the last db.commit() made durable
    pc,                 \* position of the actor
    outcome,            \* "running" | "returned" | "raised"
    written_item_ids,   \* CommitBase.written_item_ids
    final_items,        \* write_publish_items: delayed entry point items
    flush_paths,        \* CommitPhase2.flush_paths
    partitions,         \* partitions / chunks still to process
    batches,            \* queue_batches: batches still to put
    queued_item_ids,    \* queue_batches: ids put so far
    sentinels,          \* stop(): sentinels still to put
    exc,                \* exception propagating out of the with-body
    bw,                 \* the _BatchWriter: [scope, queue, threads, errors]; a closed
                        \* writer has scope "none" and keeps its error list
    kv,                 \* requests seen by the KV store and the cache flusher
    hist,               \* observations of the run used to state properties
    call                \* a call of a pure function: [fn, arg, done, ret]

vars ==
    <<commit_mode, task, publish_state, item, published_paths, db, pc, outcome,
      written_item_ids, final_items, flush_paths, partitions, batches,
      queued_item_ids, sentinels, exc, bw, kv, hist, call>>

(***************************************************************************)
(* Rows and requests.                                                      *)
(***************************************************************************)
ObjectKeyTable == <<"key1", "key2", "key3", "key4", "key5", "key6">>

object_key_of(i) == ObjectKeyTable[Slot(i)]

Absent == [present |-> FALSE, dirty |-> FALSE, object_key |-> ""]

ItemRows(i) ==
    {Absent,
     [present |-> TRUE, dirty |-> FALSE, object_key |-> object_key_of(i)],
     [present |-> TRUE, dirty |-> TRUE, object_key |-> object_key_of(i)],
     [present |-> TRUE, dirty |-> TRUE, object_key |-> ""]}

\* the record a put or delete request carries for an item (KV record schema)
kv_record(i) ==
    [web_uri |-> web_uri(i), object_key |-> item[i].object_key, from_date |-> from_date]

DirtyIds == {i \in ItemIds : item[i].present /\ item[i].dirty}

Sentinel == <<0>>

NoWriter == [scope |-> "none", queue |-> <<>>, threads |-> EmptyBag, errors |-> <<>>]

NoCall == [fn |-> "none", arg |-> <<>>, done |-> FALSE, ret |-> FALSE]

\* db.commit(): the session's rows become durable
db_commit(task_state, pub_state, dirty_ids, paths) ==
    [task |-> task_state, publish |-> pub_state, dirty |-> dirty_ids, paths |-> paths]

Init ==
    /\ commit_mode \in CommitModes
    /\ task \in [state : TaskStates, expired : BOOLEAN]
    /\ publish_state \in PublishStates
    /\ item \in {f \in [ItemIds -> UNION {ItemRows(i) : i \in ItemIds}] :
                    \A i \in ItemIds : f[i] \in ItemRows(i)}
    /\ published_paths = {}
    /\ db = db_commit(task.state, publish_state, DirtyIds, {})
    /\ pc = "should_write"
    /\ outcome = "running"
    /\ written_item_ids = <<>>
    /\ final_items = <<>>
    /\ flush_paths = <<>>
    /\ partitions = <<>>
    /\ batches = <<>>
    /\ queued_item_ids = <<>>
    /\ sentinels = 0
    /\ exc = "none"
    /\ bw = NoWriter
    /\ kv = [write_issued |-> {}, write_acked |-> {}, delete_issued |-> {},
             flush_calls |-> 0]
    /\ hist = [gate |-> "none", in_progress |-> FALSE, item_select |-> FALSE,
               write_path |-> FALSE, dirty_cleared |-> FALSE, clean_scopes |-> {}, rollback |-> FALSE]
    /\ call = NoCall

(***************************************************************************)
(* CommitBase: readiness gates (should_write).                             *)
(***************************************************************************)
PUBLISH_STATES_either == {"COMMITTING", "PENDING"}

PUBLISH_STATES ==
    IF commit_mode = "phase1" THEN {"COMMITTING", "PENDING"} ELSE {"COMMITTING"}

task_terminal_complete_only == task.state = "COMPLETE"

task_terminal == task.state \in {"COMPLETE", "FAILED"}

task_ready_no_deadline == ~task_terminal

task_ready == ~task_terminal /\ ~task.expired

publish_ready == publish_state \in PUBLISH_STATES

item_count == Cardinality({i \in ItemIds : item[i].present})

has_items_always == TRUE

has_items == item_count > 0

on_failed_publish_committed == IF commit_mode = "phase2" THEN "COMMITTED" ELSE publish_state

on_failed_publish_kept == publish_state

\* on_failed: CommitBase sets the task; CommitPhase2 also fails the publish
on_failed_publish == IF commit_mode = "phase2" THEN "FAILED" ELSE publish_state

written_item_ids_first_chunk == <<Slice(written_item_ids, 0, item_yield_size)>>

\* written_item_ids_batched: written_item_ids in chunks of item_yield_size
written_item_ids_batched == Chunks(written_item_ids, item_yield_size)

\* DynamoDB.aliases_for_flush: the (src, dest) prefix aliases of the environment
aliases_for_flush == {<<"d", "dd">>}

\* uris_with_aliases: each uri, and for each alias whose src is the uri's prefix
\* the uri with src replaced by dest
uris_with_aliases(uris) ==
    uris \cup {<<a[2], u[2]>> : <<a, u>> \in {<<b, v>> \in aliases_for_flush \X uris : v[1] = b[1]}}

updated_paths_unaliased == {<<env, flush_paths[k]>> : k \in 1..Len(flush_paths)}

\* updated_paths of on_succeeded: the rows (env, web_uri) to upsert
updated_paths == {<<env, u>> : u \in uris_with_aliases(Range(flush_paths))}

actor_frame ==
    UNCHANGED <<commit_mode, written_item_ids, final_items, flush_paths, partitions,
                batches, queued_item_ids, sentinels, exc, bw, kv, call>>

\* task_ready is False: a terminal task is left alone, an expired one fails
TaskNotReady ==
    /\ pc = "should_write"
    /\ ~task_ready
    /\ IF task_terminal
       THEN UNCHANGED <<task, publish_state, db>>
       ELSE /\ task' = [task EXCEPT !.state = "FAILED"]
            /\ publish_state' = on_failed_publish
            /\ db' = db_commit("FAILED", on_failed_publish, DirtyIds, published_paths)
    /\ hist' = [hist EXCEPT !.gate = IF task_terminal THEN "terminal" ELSE "expired"]
    /\ pc' = "done"
    /\ outcome' = "returned"
    /\ UNCHANGED <<item, published_paths>>
    /\ actor_frame

PublishNotReady ==
    /\ pc = "should_write"
    /\ task_ready
    /\ ~publish_ready
    /\ task' = [task EXCEPT !.state = "FAILED"]
    /\ db' = db_commit("FAILED", publish_state, DirtyIds, published_paths)
    /\ hist' = [hist EXCEPT !.gate = "publish"]
    /\ pc' = "done"
    /\ outcome' = "returned"
    /\ UNCHANGED <<publish_state, item, published_paths>>
    /\ actor_frame

\* on_succeeded: the rows whose dirty flag the UPDATE statements clear
on_succeeded_ids == Range(Flatten(written_item_ids_batched))

on_succeeded_item ==
    [i \in ItemIds |->
        IF i \in on_succeeded_ids /\ item[i].present
        THEN [item[i] EXCEPT !.dirty = FALSE]
        ELSE item[i]]

\* CommitPhase2.on_succeeded also upserts the paths and completes the publish
on_succeeded_paths ==
    IF commit_mode = "phase2" THEN published_paths \cup updated_paths
    ELSE published_paths

on_succeeded_publish == IF commit_mode = "phase2" THEN "COMMITTED" ELSE publish_state

\* on_succeeded() followed by db.commit(), and the actor returns
OnSucceededEffect ==
    /\ task' = [task EXCEPT !.state = "COMPLETE"]
    /\ item' = on_succeeded_item
    /\ published_paths' = on_succeeded_paths
    /\ publish_state' = on_succeeded_publish
    /\ db' = db_commit("COMPLETE", on_succeeded_publish,
                       {i \in ItemIds : on_succeeded_item[i].present
                                        /\ on_succeeded_item[i].dirty},
                       on_succeeded_paths)
    /\ hist' = [hist EXCEPT
                    !.gate = IF pc = "should_write" THEN "empty" ELSE @,
                    !.dirty_cleared =
                        @ \/ (\E i \in ItemIds : item[i].dirty /\ ~on_succeeded_item[i].dirty)]
    /\ pc' = "done"
    /\ outcome' = "returned"

\* an empty commit just instantly succeeds
NoItems ==
    /\ pc = "should_write"
    /\ task_ready
    /\ publish_ready
    /\ ~has_items
    /\ OnSucceededEffect
    /\ actor_frame

StartWrite_without_commit ==
    /\ pc = "should_write"
    /\ task_ready
    /\ publish_ready
    /\ has_items
    /\ task' = [task EXCEPT !.state = "IN_PROGRESS"]
    /\ hist' = [hist EXCEPT !.in_progress = TRUE]
    /\ pc' = "pre_write"
    /\ UNCHANGED <<publish_state, item, published_paths, outcome, db>>
    /\ actor_frame

\* should_write() is True: task.state = in_progress; db.commit()
StartWrite ==
    /\ pc = "should_write"
    /\ task_ready
    /\ publish_ready
    /\ has_items
    /\ task' = [task EXCEPT !.state = "IN_PROGRESS"]
    /\ db' = db_commit("IN_PROGRESS", publish_state, DirtyIds, published_paths)
    /\ hist' = [hist EXCEPT !.in_progress = TRUE]
    /\ pc' = "pre_write"
    /\ UNCHANGED <<publish_state, item, published_paths, outcome>>
    /\ actor_frame

(***************************************************************************)
(* pre_write: nothing in phase 1; the autoindex enricher in phase 2.  The  *)
(* enricher may add index items to the publish, and it may fail: the call  *)
(* is outside the try block of the actor.                                  *)
(***************************************************************************)
AutoindexIds == {i \in ItemIds : basename(web_uri(i)) = autoindex_filename}

enriched(ids) ==
    [i \in ItemIds |->
        IF i \in ids
        THEN [present |-> TRUE, dirty |-> TRUE, object_key |-> object_key_of(i)]
        ELSE item[i]]

PreWrite ==
    /\ pc = "pre_write"
    /\ \/ /\ commit_mode = "phase1"
          /\ pc' = "write_publish_items"
          /\ UNCHANGED <<item, outcome>>
       \/ /\ commit_mode = "phase2"
          /\ \E ids \in SUBSET {i \in AutoindexIds : ~item[i].present} :
                item' = enriched(ids)
          /\ pc' = "write_publish_items"
          /\ UNCHANGED outcome
       \/ /\ commit_mode = "phase2"
          /\ pc' = "done"
          /\ outcome' = "raised"
          /\ UNCHANGED item
    /\ UNCHANGED <<task, publish_state, published_paths, db, hist>>
    /\ actor_frame

(***************************************************************************)
(* _BatchWriter.                                                           *)
(***************************************************************************)
\* A thread is [pc, got]; self.threads is the bag of the threads' states: the
\* threads run the same code and stop() joins them all.
Thread(at, got) == [pc |-> at, got |-> got]

\* start(): one thread per worker, each entering write_batches
start(scope) ==
    [scope |-> scope, queue |-> <<>>,
     threads |-> [t \in {Thread("loop", <<>>)} |-> write_max_workers],
     errors |-> <<>>]

\* thread t moves on to state u
step(t, u) == (bw.threads (-) SetToBag({t})) (+) SetToBag({u})

Threads == BagToSet(bw.threads)

append_error(err) == Append(bw.errors, err)

queue_full == Len(bw.queue) >= write_queue_size

\* DynamoDB.get_batches: chunks of write_batch_size
get_batches(items) == Chunks(items, write_batch_size)

item_select_all ==
    {i \in ItemIds :
        /\ item[i].present
        /\ (commit_mode = "phase1" => item[i].object_key # "")}

\* item_select: the dirty items of the publish; phase 1 skips unresolved links
item_select ==
    {i \in ItemIds :
        /\ item[i].present
        /\ item[i].dirty
        /\ (commit_mode = "phase1" => item[i].object_key # "")}

check_item_accepts(i) == TRUE

\* check_item raises ValueError for an item without object_key
check_item(i) == item[i].object_key # ""

IsFinal(i) == is_phase2(i)

IsBody(i) == ~is_phase2(i)

flush_path_as_is(uri) == uri

\* add_flush_paths: the "directory" of an autoindex, the path itself otherwise
flush_path(uri) ==
    IF basename(uri) = autoindex_filename THEN <<dirname(uri), "">> ELSE uri

add_flush_paths(ids) == flush_paths \o [k \in 1..Len(ids) |-> flush_path(web_uri(ids[k]))]

\* __exit__ calls stop(): a sentinel per thread is to be put
BeginStop ==
    /\ pc' = "stop"
    /\ sentinels' = BagCardinality(bw.threads)

data_frame ==
    UNCHANGED <<commit_mode, task, publish_state, item, published_paths, db, outcome, call>>

\* write_publish_items of CommitBase: select the items, open the phase 1 writer
OpenPhase1Writer ==
    /\ pc = "write_publish_items"
    /\ partitions' = Chunks(SortedSeq(item_select), item_yield_size)
    /\ bw' = start("phase1")
    /\ pc' = "partition"
    /\ hist' = [hist EXCEPT !.item_select = TRUE, !.write_path = TRUE]
    /\ data_frame
    /\ UNCHANGED <<written_item_ids, final_items, flush_paths, batches,
                   queued_item_ids, sentinels, exc, kv>>

\* one iteration of `for partition in partitions`, up to the queue_batches call
NextPartition ==
    /\ pc = "partition"
    /\ IF partitions = <<>>
       THEN /\ BeginStop
            /\ UNCHANGED <<partitions, final_items, batches, queued_item_ids, exc>>
       ELSE LET part == Head(partitions)
                bad  == {k \in 1..Len(part) : ~check_item(part[k])}
                upto == IF bad = {} THEN Len(part)
                        ELSE (CHOOSE k \in bad : \A j \in bad : k <= j) - 1
                rows == SubSeq(part, 1, upto)
            IN  /\ final_items' = final_items \o SelectSeq(rows, IsFinal)
                /\ IF bad = {}
                   THEN /\ batches' = get_batches(SelectSeq(rows, IsBody))
                        /\ queued_item_ids' = <<>>
                        /\ partitions' = Tail(partitions)
                        /\ pc' = "queue_batches"
                        /\ UNCHANGED <<exc, sentinels>>
                   ELSE /\ exc' = "ValueError"
                        /\ BeginStop
                        /\ UNCHANGED <<partitions, batches, queued_item_ids>>
    /\ data_frame
    /\ UNCHANGED <<written_item_ids, flush_paths, bw, kv, hist>>

QueueBatches_ignores_errors ==
    /\ pc = "queue_batches"
    /\ IF batches = <<>>
       THEN /\ written_item_ids' = IF bw.scope = "rollback" THEN written_item_ids
                                   ELSE written_item_ids \o queued_item_ids
            /\ queued_item_ids' = <<>>
            /\ IF bw.scope = "phase1"
               THEN pc' = "partition" /\ UNCHANGED <<sentinels, flush_paths>>
               ELSE /\ BeginStop
                    /\ flush_paths' = IF bw.scope = "phase2"
                                      THEN add_flush_paths(final_items)
                                      ELSE flush_paths
            /\ UNCHANGED batches
       ELSE /\ batches' = batches
            /\ pc' = "queue_put"
            /\ UNCHANGED <<written_item_ids, queued_item_ids, sentinels, flush_paths>>
    /\ data_frame
    /\ UNCHANGED <<final_items, partitions, exc, bw, kv, hist>>

\* queue_batches: the head of `for batch in batches` and the test of self.errors
QueueBatches ==
    /\ pc = "queue_batches"
    /\ IF batches = <<>>
       THEN \* return queued_item_ids: write_publish_items extends
            \* written_item_ids with it, the rollback drops it
            /\ written_item_ids' = IF bw.scope = "rollback" THEN written_item_ids
                                   ELSE written_item_ids \o queued_item_ids
            /\ queued_item_ids' = <<>>
            /\ IF bw.scope = "phase1"
               THEN pc' = "partition" /\ UNCHANGED <<sentinels, flush_paths>>
               ELSE /\ BeginStop
                    /\ flush_paths' = IF bw.scope = "phase2"
                                      THEN add_flush_paths(final_items)
                                      ELSE flush_paths
            /\ UNCHANGED batches
       ELSE /\ IF bw.errors # <<>>
               THEN batches' = Tail(batches) /\ pc' = pc
               ELSE batches' = batches /\ pc' = "queue_put"
            /\ UNCHANGED <<written_item_ids, queued_item_ids, sentinels, flush_paths>>
    /\ data_frame
    /\ UNCHANGED <<final_items, partitions, exc, bw, kv, hist>>

\* self.queue.put(batch, timeout) succeeds
QueuePut ==
    /\ pc = "queue_put"
    /\ ~queue_full
    /\ bw' = [bw EXCEPT !.queue = Append(@, Head(batches))]
    /\ queued_item_ids' = queued_item_ids \o Head(batches)
    /\ batches' = Tail(batches)
    /\ pc' = "queue_batches"
    /\ data_frame
    /\ UNCHANGED <<written_item_ids, final_items, flush_paths, partitions,
                   sentinels, exc, kv, hist>>

\* self.queue.put(batch, timeout) times out on a full queue: Full is recorded
QueueFull ==
    /\ pc = "queue_put"
    /\ queue_full
    /\ bw' = [bw EXCEPT !.errors = append_error("Full")]
    /\ batches' = Tail(batches)
    /\ pc' = "queue_batches"
    /\ data_frame
    /\ UNCHANGED <<written_item_ids, final_items, flush_paths, partitions,
                   queued_item_ids, sentinels, exc, kv, hist>>

\* stop(): self.queue.put(self.sentinel, timeout) succeeds
StopPutSentinel ==
    /\ pc = "stop"
    /\ sentinels > 0
    /\ ~queue_full
    /\ bw' = [bw EXCEPT !.queue = Append(@, Sentinel)]
    /\ sentinels' = sentinels - 1
    /\ data_frame
    /\ UNCHANGED <<pc, written_item_ids, final_items, flush_paths, partitions, batches,
                   queued_item_ids, exc, kv, hist>>

StopSentinelFull_blocks ==
    /\ pc = "stop"
    /\ FALSE
    /\ UNCHANGED vars

\* stop(): the put of a sentinel times out on a full queue
StopSentinelFull ==
    /\ pc = "stop"
    /\ sentinels > 0
    /\ queue_full
    /\ bw' = [bw EXCEPT !.errors = append_error("Full")]
    /\ sentinels' = sentinels - 1
    /\ data_frame
    /\ UNCHANGED <<pc, written_item_ids, final_items, flush_paths, partitions, batches,
                   queued_item_ids, exc, kv, hist>>

all_joined_without_wait == TRUE

all_joined == \A t \in Threads : t.pc \in {"exit", "dead"}

stop_errors_ignores_queue == bw.errors

\* stop(): the error list after the qsize() test that follows the joins
stop_errors ==
    IF Len(bw.queue) > 0 /\ Head(bw.queue) # Sentinel
    THEN append_error("Commit incomplete, queue not empty")
    ELSE bw.errors

\* what leaves the with-statement: stop() raises errors[0], else the body's exception
scope_raises == IF stop_errors # <<>> THEN stop_errors[1] ELSE exc

\* stop(): every thread is joined; the scope closes, cleanly or with an exception
StopJoin ==
    /\ pc = "stop"
    /\ sentinels = 0
    /\ all_joined
    /\ bw' = [NoWriter EXCEPT !.errors = stop_errors]
    /\ exc' = scope_raises
    /\ hist' = [hist EXCEPT !.clean_scopes =
                    @ \cup (IF scope_raises = "none" THEN {bw.scope} ELSE {})]
    /\ pc' = IF bw.scope = "rollback"
             THEN (IF scope_raises = "none" THEN "rollback_chunk" ELSE "finally")
             ELSE IF scope_raises # "none" THEN "rollback"
             ELSE IF bw.scope = "phase2" THEN "flush"
             ELSE IF commit_mode = "phase2" THEN "open2"
             ELSE "on_succeeded"
    /\ data_frame
    /\ UNCHANGED <<written_item_ids, final_items, flush_paths, partitions, batches,
                   queued_item_ids, sentinels, kv>>

(***************************************************************************)
(* write_batches: the loop of one worker thread.                           *)
(***************************************************************************)
worker_frame ==
    /\ data_frame
    /\ UNCHANGED <<pc, written_item_ids, final_items, flush_paths, partitions, batches,
                   queued_item_ids, sentinels, exc, hist>>

WorkerLoop_ignores_errors(t) ==
    /\ t.pc = "loop"
    /\ bw' = [bw EXCEPT !.threads = step(t, Thread("get", <<>>))]
    /\ UNCHANGED kv
    /\ worker_frame

\* `while not self.errors`
WorkerLoop(t) ==
    /\ t.pc = "loop"
    /\ bw' = [bw EXCEPT !.threads =
                step(t, Thread(IF bw.errors = <<>> THEN "get" ELSE "exit", <<>>))]
    /\ UNCHANGED kv
    /\ worker_frame

\* self.queue.get(timeout) returns an entry: the sentinel ends the loop
WorkerGet(t) ==
    /\ t.pc = "get"
    /\ bw.queue # <<>>
    /\ bw' = [bw EXCEPT !.queue = Tail(@),
                        !.threads =
                            IF Head(bw.queue) = Sentinel
                            THEN step(t, Thread("exit", <<>>))
                            ELSE step(t, Thread("rpc", Head(bw.queue)))]
    /\ UNCHANGED kv
    /\ worker_frame

err_is_not_Empty_by_type == FALSE

\* `err is not Empty` compares the exception instance with the class Empty
err_is_not_Empty == TRUE

\* self.queue.get(timeout) times out: Empty is caught and the loop ends
WorkerEmpty(t) ==
    /\ t.pc = "get"
    /\ bw.queue = <<>>
    /\ bw' = [bw EXCEPT !.threads = step(t, Thread("exit", <<>>)),
                        !.errors = IF err_is_not_Empty THEN append_error("Empty") ELSE @]
    /\ UNCHANGED kv
    /\ worker_frame

\* the outcomes of DynamoDB.write_batch: it returns, it raises an exception the
\* worker catches (RuntimeError stands for ValueError too: the handler is the
\* same), or it raises one outside the except clause
WriteOutcomes == {"ok", "RuntimeError", "ClientError"}

Caught == {"RuntimeError", "ValueError", "Empty"}

batch_records(batch) == {kv_record(batch[k]) : k \in 1..Len(batch)}

\* self.dynamodb.write_batch(got, delete=self.delete)
WorkerWrite(t) ==
    /\ t.pc = "rpc"
    /\ \E result \in WriteOutcomes :
          LET delete == bw.scope = "rollback"
          IN  /\ kv' = IF delete
                       THEN [kv EXCEPT !.delete_issued = @ \cup batch_records(t.got)]
                       ELSE [kv EXCEPT
                               !.write_issued = @ \cup batch_records(t.got),
                               !.write_acked = IF result = "ok"
                                               THEN @ \cup batch_records(t.got) ELSE @]
              /\ bw' = [bw EXCEPT
                          !.threads =
                              IF result = "ok" THEN step(t, Thread("loop", <<>>))
                              ELSE IF result \in Caught THEN step(t, Thread("exit", <<>>))
                              ELSE step(t, Thread("dead", <<>>)),
                          !.errors = IF result \in Caught
                                     THEN append_error(result) ELSE @]
    /\ worker_frame

(***************************************************************************)
(* CommitPhase2.write_publish_items: the second writer and the cache flush.*)
(***************************************************************************)
OpenPhase2Writer ==
    /\ pc = "open2"
    /\ bw' = start("phase2")
    /\ IF final_items # <<>>
       THEN /\ batches' = get_batches(final_items)
            /\ queued_item_ids' = <<>>
            /\ pc' = "queue_batches"
            /\ UNCHANGED sentinels
       ELSE /\ pc' = "stop"
            /\ sentinels' = BagCardinality(bw'.threads)
            /\ UNCHANGED <<batches, queued_item_ids>>
    /\ data_frame
    /\ UNCHANGED <<written_item_ids, final_items, flush_paths, partitions, exc, kv, hist>>

\* Flusher.run(): the vendor call succeeds or fails
FlushOutcomes == {"ok", "FlushError"}

\* flush_cache() after the writes, inside the try block
FlushCache ==
    /\ pc = "flush"
    /\ IF cdn_flush_on_commit
       THEN \E result \in FlushOutcomes :
               /\ kv' = [kv EXCEPT !.flush_calls = @ + 1]
               /\ exc' = IF result = "ok" THEN "none" ELSE result
               /\ pc' = IF result = "ok" THEN "on_succeeded" ELSE "rollback"
       ELSE /\ pc' = "on_succeeded"
            /\ UNCHANGED <<kv, exc>>
    /\ data_frame
    /\ UNCHANGED <<written_item_ids, final_items, flush_paths, partitions, batches,
                   queued_item_ids, sentinels, bw, hist>>

\* commit_obj.on_succeeded(); commit_obj.db.commit()
OnSucceeded ==
    /\ pc = "on_succeeded"
    /\ OnSucceededEffect
    /\ actor_frame

(***************************************************************************)
(* The except branch of the actor: rollback, then on_failed and db.commit  *)
(* in the finally block.                                                   *)
(***************************************************************************)
RollbackPublishItems ==
    /\ pc = "rollback"
    /\ partitions' = written_item_ids_batched
    /\ exc' = "none"
    /\ hist' = [hist EXCEPT !.rollback = TRUE]
    /\ pc' = "rollback_chunk"
    /\ data_frame
    /\ UNCHANGED <<written_item_ids, final_items, flush_paths, batches,
                   queued_item_ids, sentinels, bw, kv>>

\* the items of a chunk: db.query(Item).filter(Item.id.in_(item_ids))
chunk_items(item_ids) == SortedSeq({i \in Range(item_ids) : item[i].present})

\* one iteration of `for item_ids in self.written_item_ids_batched`
RollbackChunk ==
    /\ pc = "rollback_chunk"
    /\ IF partitions = <<>>
       THEN /\ pc' = IF commit_mode = "phase2" THEN "rollback_flush" ELSE "finally"
            /\ UNCHANGED <<partitions, batches, queued_item_ids, bw>>
       ELSE /\ bw' = start("rollback")
            /\ batches' = get_batches(chunk_items(Head(partitions)))
            /\ queued_item_ids' = <<>>
            /\ partitions' = Tail(partitions)
            /\ pc' = "queue_batches"
    /\ data_frame
    /\ UNCHANGED <<written_item_ids, final_items, flush_paths, sentinels, exc, kv, hist>>

\* CommitPhase2.rollback_publish_items: flush_cache() after the deletes
RollbackFlush ==
    /\ pc = "rollback_flush"
    /\ IF cdn_flush_on_commit
       THEN \E result \in FlushOutcomes :
               /\ kv' = [kv EXCEPT !.flush_calls = @ + 1]
               /\ exc' = IF result = "ok" THEN "none" ELSE result
       ELSE UNCHANGED <<kv, exc>>
    /\ pc' = "finally"
    /\ data_frame
    /\ UNCHANGED <<written_item_ids, final_items, flush_paths, partitions, batches,
                   queued_item_ids, sentinels, bw, hist>>

\* finally: on_failed(); db.commit().  An exception of the rollback is not
\* caught: it leaves the actor after the finally block
Finally ==
    /\ pc = "finally"
    /\ task' = [task EXCEPT !.state = "FAILED"]
    /\ publish_state' = on_failed_publish
    /\ db' = db_commit("FAILED", on_failed_publish, DirtyIds, published_paths)
    /\ pc' = "done"
    /\ outcome' = IF exc = "none" THEN "returned" ELSE "raised"
    /\ UNCHANGED <<item, published_paths, hist>>
    /\ actor_frame

Next ==
    \/ TaskNotReady
    \/ PublishNotReady
    \/ NoItems
    \/ StartWrite
    \/ PreWrite
    \/ OpenPhase1Writer
    \/ NextPartition
    \/ QueueBatches
    \/ QueuePut
    \/ QueueFull
    \/ StopPutSentinel
    \/ StopSentinelFull
    \/ StopJoin
    \/ \E t \in Threads : WorkerLoop(t)
    \/ \E t \in Threads : WorkerGet(t)
    \/ \E t \in Threads : WorkerEmpty(t)
    \/ \E t \in Threads : WorkerWrite(t)
    \/ OpenPhase2Writer
    \/ FlushCache
    \/ OnSucceeded
    \/ RollbackPublishItems
    \/ RollbackChunk
    \/ RollbackFlush
    \/ Finally

Spec == Init /\ [][Next]_vars

\* the main thread inside stop(): a put with a timeout completes or times out,
\* and a join returns once the thread has ended
StopStep == StopPutSentinel \/ StopSentinelFull \/ StopJoin

\* the worker threads: a get with a timeout returns an entry or times out, and
\* a write RPC returns or raises
WorkerStep ==
    \E t \in Threads : WorkerLoop(t) \/ WorkerGet(t) \/ WorkerEmpty(t) \/ WorkerWrite(t)

\* the threads are scheduled: the main thread and the workers keep taking steps
FairSpec == Init /\ [][Next]_vars /\ WF_vars(StopStep) /\ WF_vars(WorkerStep)

(***************************************************************************)
(* CacheFlushRule.matches (settings.py).  A path is a sequence of          *)
(* characters; a compiled pattern is a literal text, searched anywhere in  *)
(* the path, at its start (^) or at its end ($).                           *)
(***************************************************************************)
MaxPathLen == 3

PathChars == {"/", "a", "b"}

Paths == UNION {[1..n -> PathChars] : n \in 0..MaxPathLen}

Patterns ==
    {[lit |-> <<"/", "a">>, anchor |-> "start"],
     [lit |-> <<"a">>, anchor |-> "none"],
     [lit |-> <<"/", "b">>, anchor |-> "none"],
     [lit |-> <<"b">>, anchor |-> "end"]}

Rules == [includes : SUBSET Patterns, excludes : SUBSET Patterns]

\* pattern.search(path)
search(pattern, path) ==
    LET n == Len(pattern.lit)
        m == Len(path)
        occurs(k) == k + n - 1 <= m /\ SubSeq(path, k, k + n - 1) = pattern.lit
    IN  CASE pattern.anchor = "start" -> occurs(1)
          [] pattern.anchor = "end" -> n <= m /\ occurs(m - n + 1)
          [] OTHER -> \E k \in 1..m : occurs(k)

\* str.removeprefix
removeprefix(path, prefix) ==
    IF Len(prefix) <= Len(path) /\ SubSeq(path, 1, Len(prefix)) = prefix
    THEN SubSeq(path, Len(prefix) + 1, Len(path))
    ELSE path

normalized_as_given(path) == path

\* path = "/" + path.removeprefix("/")
normalized(path) == <<"/">> \o removeprefix(path, <<"/">>)

\* matches: at least one of includes, then none of excludes
matches(rule, path) ==
    LET p == normalized(path)
    IN  IF ~(\E pattern \in rule.includes : search(pattern, p)) THEN FALSE
        ELSE IF \E pattern \in rule.excludes : search(pattern, p) THEN FALSE
        ELSE TRUE

(***************************************************************************)
(* The pure functions applied to inputs of their whole domain: is_phase2   *)
(* to every row of the item table (an id past the table stands for        *)
(* another item with the same web_uri), matches to every rule and path.    *)
(***************************************************************************)
TableIds == 1..(2 * Len(DirTable))

\* no commit is running
Idle ==
    /\ commit_mode = "phase2"
    /\ task = [state |-> "NOT_STARTED", expired |-> FALSE]
    /\ publish_state = "PENDING"
    /\ item = [i \in ItemIds |-> Absent]
    /\ published_paths = {}
    /\ db = db_commit("NOT_STARTED", "PENDING", {}, {})
    /\ pc = "done"
    /\ outcome = "returned"
    /\ written_item_ids = <<>>
    /\ final_items = <<>>
    /\ flush_paths = <<>>
    /\ partitions = <<>>
    /\ batches = <<>>
    /\ queued_item_ids = <<>>
    /\ sentinels = 0
    /\ exc = "none"
    /\ bw = NoWriter
    /\ kv = [write_issued |-> {}, write_acked |-> {}, delete_issued |-> {},
             flush_calls |-> 0]
    /\ hist = [gate |-> "none", in_progress |-> FALSE, item_select |-> FALSE,
               write_path |-> FALSE, dirty_cleared |-> FALSE, clean_scopes |-> {},
               rollback |-> FALSE]

PureInit ==
    /\ Idle
    /\ \/ \E i \in TableIds :
            call = [fn |-> "is_phase2", arg |-> i, done |-> FALSE, ret |-> FALSE]
       \/ \E rule \in Rules, path \in Paths :
            call = [fn |-> "matches", arg |-> [rule |-> rule, path |-> path],
                    done |-> FALSE, ret |-> FALSE]

pure_frame ==
    UNCHANGED <<commit_mode, task, publish_state, item, published_paths, db, pc, outcome,
                written_item_ids, final_items, flush_paths, partitions, batches,
                queued_item_ids, sentinels, exc, bw, kv, hist>>

IsPhase2Call ==
    /\ call.fn = "is_phase2"
    /\ ~call.done
    /\ call' = [call EXCEPT !.done = TRUE, !.ret = is_phase2(call.arg)]
    /\ pure_frame

MatchesCall ==
    /\ call.fn = "matches"
    /\ ~call.done
    /\ call' = [call EXCEPT !.done = TRUE, !.ret = matches(call.arg.rule, call.arg.path)]
    /\ pure_frame

PureNext ==
    \/ IsPhase2Call
    \/ MatchesCall

PureSpec == PureInit /\ [][PureNext]_vars

(***************************************************************************)
(* Properties.                                                             *)
(***************************************************************************)
Terminal == {"COMPLETE", "FAILED"}

Exited == pc = "done"

Phase2Uris == {web_uri(i) : i \in {j \in ItemIds : is_phase2(j)}}

Written == Range(written_item_ids)

WrittenBodies == {i \in Written : web_uri(i) \notin Phase2Uris}

NoKvRequest == kv.write_issued = {} /\ kv.delete_issued = {}

\* C1: when the actor exits, the task state is COMPLETE or FAILED, never
\* IN_PROGRESS, whatever the outcome of the gates, pre_write, the writes, the
\* cache flush or the rollback.
C1_TaskTerminalAtExit == Exited => task.state \in Terminal /\ db.task \in Terminal

\* C2: in a phase-2 commit every write of a phase-1 item is acknowledged, and the
\* phase-1 writer has closed, before the first write of a phase-2 item is issued;
\* if the phase-1 writer raised, no phase-2 write is issued at all.
C2_BodiesBeforeEntryPoints ==
    (\E r \in kv.write_issued : r.web_uri \in Phase2Uris) =>
        /\ "phase1" \in hist.clean_scopes
        /\ \A i \in WrittenBodies : kv_record(i) \in kv.write_acked

\* C3: after a commit that ends with the task COMPLETE, every item the commit
\* wrote has dirty = FALSE and a write carrying its web_uri, object_key and the
\* commit's from_date was acknowledged by the KV store.
C3_CompleteMeansWritten ==
    (Exited /\ task.state = "COMPLETE") =>
        \A i \in Written : ~item[i].dirty /\ kv_record(i) \in kv.write_acked

C5_NeverRaisesToBroker == hist.write_path => outcome # "raised"

\* C6: dirty flags are cleared only after every write the commit queued has been
\* acknowledged; none is cleared while a write is pending, in flight or failed.
C6_DirtyClearedAfterAcks ==
    hist.dirty_cleared =>
        /\ bw.scope = "none"
        /\ \A i \in Written : kv_record(i) \in kv.write_acked

Ready == task.state \notin Terminal /\ ~task.expired

Allowed ==
    \/ commit_mode = "phase1" /\ publish_state \in {"PENDING", "COMMITTING"}
    \/ commit_mode = "phase2" /\ publish_state = "COMMITTING"

AtEntry == pc = "should_write"

Returns == pc' = "done" /\ outcome' = "returned"

\* C7: a task that is not terminal and is past its deadline when the actor starts
\* becomes FAILED, the DB is committed and the actor returns, with no KV write,
\* no KV delete and no query of the items to write.
C7_ExpiredTaskFails ==
    [][/\ pc # "done"
       /\ (AtEntry /\ task.state \notin Terminal /\ task.expired) =>
            /\ task'.state = "FAILED"
            /\ db'.task = "FAILED"
            /\ Returns
            /\ kv' = kv
            /\ ~hist'.item_select]_vars

C7_Witness ==
    /\ Exited
    /\ hist.gate = "expired"
    /\ task.state = "FAILED"
    /\ db.task = "FAILED"
    /\ outcome = "returned"
    /\ NoKvRequest

\* C8: a task that is COMPLETE or FAILED when the actor starts, even past its
\* deadline, keeps its state: nothing is written to the KV store or to the DB
\* and the actor returns.
C8_TerminalTaskAbsorbing ==
    [][(AtEntry /\ task.state \in Terminal) =>
            /\ task' = task
            /\ db' = db
            /\ publish_state' = publish_state
            /\ kv' = kv
            /\ Returns]_vars

C8_Witness ==
    /\ Exited
    /\ hist.gate = "terminal"
    /\ task.expired
    /\ task.state = "COMPLETE"
    /\ db.task = "COMPLETE"
    /\ outcome = "returned"

\* C9: a commit goes ahead only in an allowed publish state (phase 1: PENDING or
\* COMMITTING; phase 2: COMMITTING); with a ready task and any other publish
\* state the task becomes FAILED, the DB is committed, nothing is written to the
\* KV store and the publish state stays as it was.
C9_PublishStateGate ==
    [][/\ (AtEntry /\ (pc' = "pre_write" \/ (task.state \notin Terminal
                                             /\ task'.state = "COMPLETE")))
            => Allowed
       /\ (AtEntry /\ Ready /\ ~Allowed) =>
            /\ task'.state = "FAILED"
            /\ db'.task = "FAILED"
            /\ publish_state' = publish_state
            /\ db'.publish = publish_state
            /\ kv' = kv
            /\ Returns]_vars

C9_Witness ==
    /\ Exited
    /\ hist.gate = "publish"
    /\ commit_mode = "phase2"
    /\ publish_state = "PENDING"
    /\ task.state = "FAILED"
    /\ db.task = "FAILED"
    /\ NoKvRequest

\* C10: a commit of a publish without items, with a ready task and an allowed
\* publish state, ends with the task COMPLETE (and the publish COMMITTED in phase
\* 2), issues no KV write and no cache flush, and never sets the task IN_PROGRESS.
C10_EmptyCommitSucceeds ==
    [][(AtEntry /\ Ready /\ Allowed /\ \A i \in ItemIds : ~item[i].present) =>
            /\ task'.state = "COMPLETE"
            /\ db'.task = "COMPLETE"
            /\ publish_state' = IF commit_mode = "phase2" THEN "COMMITTED"
                                ELSE publish_state
            /\ db'.publish = publish_state'
            /\ kv' = kv
            /\ ~hist'.in_progress
            /\ Returns]_vars

C10_Witness ==
    /\ Exited
    /\ hist.gate = "empty"
    /\ commit_mode = "phase2"
    /\ task.state = "COMPLETE"
    /\ publish_state = "COMMITTED"
    /\ ~hist.in_progress
    /\ NoKvRequest
    /\ kv.flush_calls = 0

AllClean == \A i \in ItemIds : ~item[i].dirty

SomeItem == \E i \in ItemIds : item[i].present

\* the state a successful commit of the same kind leaves behind for a new task
AfterSuccess ==
    /\ AllClean
    /\ SomeItem
    /\ \/ commit_mode = "phase1" /\ publish_state \in {"PENDING", "COMMITTING"}
       \/ commit_mode = "phase2" /\ publish_state = "COMMITTED"

\* C11 as stated: a commit run again on a publish whose earlier commit succeeded
\* (every item non-dirty) finds has_items false and succeeds at once: the task
\* becomes COMPLETE, no KV write is issued and no item or publish state changes.
C11_RerunSucceedsInstantly ==
    [][(AtEntry /\ Ready /\ AfterSuccess) =>
            /\ task'.state = "COMPLETE"
            /\ Returns
            /\ kv' = kv
            /\ item' = item
            /\ publish_state' = publish_state]_vars

\* C11 as amended: a commit run again on a publish whose earlier commit succeeded
\* issues no KV request and changes no item or publish state, but has_items is
\* true: a phase-1 run takes the write path with nothing selected (the task is
\* set IN_PROGRESS and ends COMPLETE when the writer closes without an error,
\* FAILED otherwise); a phase-2 run finds the publish COMMITTED and fails the task.
C11_RerunWritesNothing ==
    [][/\ (AllClean /\ commit_mode = "phase1") =>
            /\ kv'.write_issued = {} /\ kv'.delete_issued = {}
            /\ item' = item
            /\ publish_state' = publish_state
       /\ (AtEntry /\ Ready /\ AfterSuccess /\ commit_mode = "phase1") =>
            /\ task'.state = "IN_PROGRESS"
            /\ pc' = "pre_write"
       /\ (AllClean /\ commit_mode = "phase1" /\ pc = "stop" /\ pc' # "stop") =>
            pc' = IF bw.errors = <<>> THEN "on_succeeded" ELSE "rollback"
       /\ (AtEntry /\ Ready /\ AfterSuccess /\ commit_mode = "phase2") =>
            /\ task'.state = "FAILED"
            /\ Returns
            /\ kv' = kv
            /\ item' = item
            /\ publish_state' = publish_state]_vars

\* a phase-1 commit of clean items went through the write path and completed
C11_Witness ==
    /\ Exited
    /\ commit_mode = "phase1"
    /\ AllClean
    /\ SomeItem
    /\ ~hist.dirty_cleared
    /\ hist.in_progress
    /\ hist.write_path
    /\ task.state = "COMPLETE"
    /\ NoKvRequest

Queued == UNION {Range(bw.queue[k]) : k \in 1..Len(bw.queue)}

Cleared == {i \in ItemIds : item[i].dirty /\ ~item'[i].dirty}

\* C12: in a phase-1 commit the items classified as phase 2 are never queued or
\* written to the KV store, never enter written_item_ids and stay dirty; on
\* success only the phase-1 items that were written become non-dirty, the task
\* becomes COMPLETE, the publish state is unchanged and no cache flush is invoked.
C12_Phase1LeavesPhase2Items ==
    [][commit_mode = "phase1" =>
            /\ \A i \in ItemIds : is_phase2(i) =>
                    /\ i \notin Queued
                    /\ i \notin Range(written_item_ids')
                    /\ item'[i] = item[i]
            /\ \A r \in kv'.write_issued : r.web_uri \notin Phase2Uris
            /\ publish_state' = publish_state
            /\ kv'.flush_calls = 0
            /\ \A i \in Cleared :
                    /\ task'.state = "COMPLETE"
                    /\ i \in Written
                    /\ ~is_phase2(i)
                    /\ kv_record(i) \in kv.write_acked
            /\ (pc = "on_succeeded" /\ pc' = "done") =>
                    /\ task'.state = "COMPLETE"
                    /\ \A i \in Written : ~item'[i].dirty]_vars

C14_FlushFailureTolerated ==
    ("phase2" \in hist.clean_scopes /\ kv.flush_calls > 0) =>
        /\ ~hist.rollback
        /\ pc \notin {"rollback", "rollback_chunk", "rollback_flush", "finally"}
        /\ kv.delete_issued = {}
        /\ Exited =>
            /\ task.state = "COMPLETE"
            /\ publish_state = "COMMITTED"
            /\ \A i \in Written : ~item[i].dirty

\* the actor left from pre_write: the task went IN_PROGRESS and the write path
\* was never entered
PreWriteFailed == Exited /\ hist.in_progress /\ ~hist.write_path

\* C15: when the autoindex enrichment of pre_write fails in a phase-2 commit, the
\* commit fails before any KV request: no write and no delete is issued and the
\* task ends FAILED.
C15_AutoindexFailureFailsTask ==
    (commit_mode = "phase2" /\ PreWriteFailed) =>
        /\ NoKvRequest
        /\ kv.flush_calls = 0
        /\ task.state = "FAILED"
        /\ db.task = "FAILED"

InQueueBatches == pc \in {"queue_batches", "queue_put"}

\* the producer's put of a batch succeeds on this step
PutStep == pc = "queue_put" /\ Len(bw'.queue) = Len(bw.queue) + 1

BatchPut == bw'.queue[Len(bw'.queue)]

\* queue_batches returns the ids of the batches it put, in the order of the puts
ReturnsWhatItPut ==
    /\ PutStep => queued_item_ids' = queued_item_ids \o BatchPut
    /\ (InQueueBatches /\ ~PutStep /\ pc' \in {"queue_batches", "queue_put"}) =>
            queued_item_ids' = queued_item_ids
    /\ (pc = "queue_batches" /\ pc' \notin {"queue_batches", "queue_put"}) =>
            written_item_ids' = IF bw.scope = "rollback" THEN written_item_ids
                                ELSE written_item_ids \o queued_item_ids
    /\ (Len(bw'.queue) > Len(bw.queue) /\ BatchPut # Sentinel) => PutStep

\* C16 as stated: queue_batches returns exactly the ids of the items in the
\* batches it put on the queue, and once an error is recorded in the error list
\* no batch is put on the queue any more, by this or a later queue_batches call.
C16_NoPutAfterError ==
    [][/\ ReturnsWhatItPut
       /\ PutStep => bw.errors = <<>>]_vars

\* C16 as amended: queue_batches returns exactly the ids of the items in the
\* batches it put on the queue, and it begins a put only when the error list is
\* empty at its test of self.errors: the one put under way when an error is
\* recorded may still succeed, no other batch is put after the error.
C16_NoPutBegunAfterError ==
    [][/\ ReturnsWhatItPut
       /\ (pc = "queue_batches" /\ pc' = "queue_put") => bw.errors = <<>>
       /\ PutStep => pc' = "queue_batches"
       /\ (pc = "queue_batches" /\ bw.errors # <<>>) =>
            /\ pc' # "queue_put"
            /\ Len(bw'.queue) <= Len(bw.queue)]_vars

\* a phase-2 writer that put a batch, recorded an error and skipped what was left
C16_Witness ==
    /\ pc = "stop"
    /\ bw.scope = "phase2"
    /\ exc = "none"
    /\ bw.errors # <<>>
    /\ Len(final_items) = 2
    /\ Cardinality(Written \cap Range(final_items)) = 1

Incomplete == "Commit incomplete, queue not empty"

BatchLeft == \E k \in 1..Len(bw.queue) : bw.queue[k] # Sentinel

\* C17: stop() pushes one sentinel per started worker and records a push that
\* fails on a full queue as an error; it joins every worker; it records "Commit
\* incomplete, queue not empty" whenever a batch is still in the queue after the
\* joins; it raises the first recorded error when the error list is not empty and
\* returns normally only when it is empty.
C17_StopProtocol ==
    [][/\ (pc # "stop" /\ pc' = "stop") =>
            /\ BagCardinality(bw'.threads) = write_max_workers
            /\ sentinels' = write_max_workers
       /\ (pc = "stop" /\ pc' = "stop") =>
            BagCardinality(bw'.threads) = write_max_workers
       /\ (pc = "stop" /\ sentinels' # sentinels) =>
            /\ sentinels' = sentinels - 1
            /\ IF queue_full
               THEN /\ bw'.errors = Append(bw.errors, "Full")
                    /\ bw'.queue = bw.queue
               ELSE /\ bw'.queue = Append(bw.queue, Sentinel)
                    /\ bw'.errors = bw.errors
       /\ (pc = "stop" /\ pc' # "stop") =>
            /\ sentinels = 0
            /\ \A t \in Threads : t.pc \in {"exit", "dead"}
            /\ bw'.errors = IF BatchLeft THEN Append(bw.errors, Incomplete)
                            ELSE bw.errors
            /\ exc' = IF bw'.errors # <<>> THEN bw'.errors[1] ELSE exc
            /\ (exc' # "none") <=> (pc' \in {"rollback", "finally"})]_vars

\* stop() met a full queue on a sentinel push, found a batch left after the joins
\* and raised the first error
C17_Witness ==
    /\ bw.scope = "none"
    /\ pc = "rollback"
    /\ Len(bw.errors) >= 2
    /\ bw.errors[1] = "Full"
    /\ bw.errors[Len(bw.errors)] = Incomplete
    /\ exc = "Full"

\* the number of threads of the bag b that are at position p
ThreadsAt(b, p) == BagCardinality([t \in {u \in BagToSet(b) : u.pc = p} |-> b[t]])

\* a worker's write_batch call raises on this step: the thread leaves the call
\* and does not go back to the head of its loop
WriteRaises ==
    /\ ThreadsAt(bw'.threads, "rpc") = ThreadsAt(bw.threads, "rpc") - 1
    /\ ThreadsAt(bw'.threads, "loop") = ThreadsAt(bw.threads, "loop")

WriteErrors == WriteOutcomes \ {"ok"}

\* C18: whenever a worker's write or delete call for a batch raises, whatever the
\* exception, the exception is recorded in the writer's error list and the
\* worker exits, so that stop() raises: the commit fails and rollback starts.
C18_WorkerExceptionRecorded ==
    [][/\ WriteRaises =>
            /\ Len(bw'.errors) = Len(bw.errors) + 1
            /\ bw'.errors[Len(bw'.errors)] \in WriteErrors
            /\ ThreadsAt(bw'.threads, "exit") = ThreadsAt(bw.threads, "exit") + 1
       /\ (pc = "stop" /\ pc' # "stop"
             /\ \/ \E t \in Threads : t.pc = "dead"
                \/ \E k \in 1..Len(bw.errors) : bw.errors[k] \in WriteErrors) =>
            /\ exc' # "none"
            /\ pc' = IF bw.scope = "rollback" THEN "finally" ELSE "rollback"]_vars

Timeouts == {"Full", "Empty"}

\* the producer's put of a batch times out on this step: the batch is dropped
PushTimesOut == pc = "queue_put" /\ pc' = "queue_batches" /\ bw'.queue = bw.queue

\* a worker's get times out on this step: the queue is empty and a thread leaves
PopTimesOut ==
    /\ bw.queue = <<>>
    /\ ThreadsAt(bw'.threads, "get") = ThreadsAt(bw.threads, "get") - 1

TimedOut == \E k \in 1..Len(bw.errors) : bw.errors[k] \in Timeouts

\* C19: a queue timeout on either side, the producer's push on a full queue or a
\* worker's pop on an empty queue, is recorded as an error of the writer, so that
\* stop() raises: the commit fails (the task ends FAILED) and rollback is run.
C19_QueueTimeoutFailsCommit ==
    [][/\ PushTimesOut => bw'.errors = Append(bw.errors, "Full")
       /\ PopTimesOut => bw'.errors = Append(bw.errors, "Empty")
       /\ (pc = "stop" /\ pc' # "stop" /\ TimedOut) =>
            /\ exc' \in Range(bw'.errors)
            /\ pc' = IF bw.scope = "rollback" THEN "finally" ELSE "rollback"
       /\ (bw.scope = "none" /\ TimedOut) =>
            /\ pc \in {"rollback", "rollback_chunk", "rollback_flush", "finally", "done"}
            /\ pc' = "done" => (hist'.rollback /\ task'.state = "FAILED")]_vars

\* a writer of the write path closed after a timeout on each side: rollback is next
C19_Witness ==
    /\ pc = "rollback"
    /\ bw.scope = "none"
    /\ exc \in Timeouts
    /\ "Full" \in Range(bw.errors)
    /\ "Empty" \in Range(bw.errors)

\* the dirty items of the publish that have no object_key
BadItems == {i \in ItemIds : item[i].present /\ item[i].dirty /\ item[i].object_key = ""}

\* the write path is at a partition that holds an item without object_key
AtBadPartition ==
    /\ pc = "partition"
    /\ partitions # <<>>
    /\ Range(Head(partitions)) \cap BadItems # {}

\* C20: an item with an empty object_key that reaches check_item in the write path
\* fails the commit: check_item raises, nothing of that partition is queued, the
\* item is never queued nor written to the KV store, rollback is run for the ids
\* queued from the earlier partitions and the task ends FAILED.
C20_MissingObjectKeyFailsCommit ==
    [][/\ (AtBadPartition /\ pc' # pc) =>
            /\ exc' = "ValueError"
            /\ pc' = "stop"
            /\ written_item_ids' = written_item_ids
            /\ bw'.queue = bw.queue
       /\ (pc = "stop" /\ pc' # "stop" /\ exc = "ValueError") =>
            /\ exc' # "none"
            /\ pc' = "rollback"
       /\ pc = "rollback" =>
            /\ pc' = "rollback_chunk"
            /\ Flatten(partitions') = written_item_ids
       /\ \A i \in BadItems :
            /\ i \notin Queued
            /\ i \notin Range(written_item_ids')
            /\ \A r \in kv'.write_issued : r.web_uri # web_uri(i)
            /\ item'[i] = item[i]
       /\ (pc' = "done" /\ hist.write_path /\ commit_mode = "phase2" /\ BadItems # {}) =>
            /\ hist'.rollback
            /\ task'.state = "FAILED"
            /\ db'.task = "FAILED"]_vars

\* a phase-2 commit that queued an item, met an item without object_key in a later
\* partition, rolled back and failed
C20_Witness ==
    /\ Exited
    /\ commit_mode = "phase2"
    /\ BadItems # {}
    /\ hist.rollback
    /\ written_item_ids # <<>>
    /\ \A i \in Written : kv_record(i) \in kv.delete_issued
    /\ task.state = "FAILED"
    /\ db.task = "FAILED"

\* the cache flush is invoked on this step
FlushStep == kv'.flush_calls = kv.flush_calls + 1

Commits == publish_state # "COMMITTED" /\ publish_state' = "COMMITTED"

\* the paths handed to the flusher, and the paths an alias derives from them
FlushedUris == Range(flush_paths)

AliasedUris ==
    {<<"dd", u[2]>> : u \in {v \in FlushedUris : v[1] = "d"}}

\* C21: in a phase-2 commit that took the write path and whose writes succeeded,
\* the cache flush is invoked after the phase-2 writer has closed and before the
\* publish is COMMITTED; the step that sets the publish COMMITTED comes after
\* that flush and upserts a PublishedPath row for every flushed path and for
\* every alias of it, made durable by the same db.commit().
C21_FlushThenPathsThenCommitted ==
    [][(commit_mode = "phase2" /\ hist.write_path) =>
          /\ (FlushStep /\ ~hist.rollback) =>
                /\ "phase2" \in hist.clean_scopes
                /\ bw.scope = "none"
                /\ kv.flush_calls = 0
                /\ publish_state = "COMMITTING"
                /\ publish_state' = "COMMITTING"
                /\ published_paths' = {}
          /\ Commits =>
                /\ kv.flush_calls = 1
                /\ kv' = kv
                /\ ~hist.rollback
                /\ \A u \in FlushedUris \cup AliasedUris : <<env, u>> \in published_paths'
                /\ db'.paths = published_paths'
                /\ db'.publish = "COMMITTED"
                /\ db.publish = "COMMITTING"]_vars

\* a phase-2 commit that wrote two entry points, flushed and recorded the paths
C21_Witness ==
    /\ Exited
    /\ commit_mode = "phase2"
    /\ hist.write_path
    /\ publish_state = "COMMITTED"
    /\ kv.flush_calls = 1
    /\ Len(flush_paths) = 2
    /\ \A i \in Written : kv_record(i) \in kv.write_acked
    /\ <<env, <<"dd", "">>>> \in published_paths
    /\ <<env, <<"d", "repomd.xml">>>> \in published_paths
    /\ db.paths = published_paths

\* a write was issued and not acknowledged: the call raised
WriteFailed == kv.write_issued # kv.write_acked

\* C22: in a phase-2 commit where a KV write fails the cache flush is invoked
\* exactly once, and only after the rollback has submitted a delete for every
\* written item and joined its workers; a phase-1 commit never invokes the flush.
C22_FlushOnceAfterRollback ==
    /\ (commit_mode = "phase2" /\ WriteFailed /\ kv.flush_calls > 0) =>
            /\ hist.rollback
            /\ bw.scope = "none"
            /\ \A i \in Written : kv_record(i) \in kv.delete_issued
            /\ kv.flush_calls = 1
    /\ (commit_mode = "phase2" /\ WriteFailed /\ Exited) => kv.flush_calls = 1
    /\ commit_mode = "phase1" => kv.flush_calls = 0

\* C23: is_phase2 is true for an item exactly when the basename of its web_uri
\* is the autoindex filename, or is one of entry_point_files, or the web_uri
\* matches one of phase2_patterns; two items with the same web_uri get the same
\* answer, and the call changes nothing else.
C23_Phase2Classifier ==
    [][call.fn = "is_phase2" =>
          LET uri == web_uri(call.arg)
          IN  /\ call'.ret = (\/ uri[2] = autoindex_filename
                              \/ uri[2] \in entry_point_files
                              \/ phase2_patterns(uri))
              /\ \A j \in TableIds : web_uri(j) = uri => is_phase2(j) = call'.ret
              /\ call'.arg = call.arg
              /\ pure_frame]_vars

\* the default pattern alone put a kickstart file in phase 2
C23_Witness ==
    /\ call.fn = "is_phase2"
    /\ call.done
    /\ call.ret
    /\ web_uri(call.arg) = <<"kickstart", "ks.cfg">>

\* the path with a leading slash
WithSlash(path) == IF path # <<>> /\ Head(path) = "/" THEN path ELSE <<"/">> \o path

\* C24: matches(path) is true exactly when the path, given a leading slash if it
\* has none, matches at least one include pattern and no exclude pattern; for a
\* path p without a leading slash, matches(p) equals matches("/" + p).
C24_RuleMatches ==
    (call.fn = "matches" /\ call.done) =>
        LET rule == call.arg.rule
            path == call.arg.path
        IN  /\ call.ret = (/\ \E pattern \in rule.includes : search(pattern, WithSlash(path))
                           /\ \A pattern \in rule.excludes : ~search(pattern, WithSlash(path)))
            /\ (path = <<>> \/ Head(path) # "/") =>
                    call.ret = matches(rule, <<"/">> \o path)

\* a path without a leading slash matched an include anchored at "/"
C24_Witness ==
    /\ call.fn = "matches"
    /\ call.done
    /\ call.ret
    /\ call.arg.path = <<"a", "/", "a">>
    /\ call.arg.rule.includes = {[lit |-> <<"/", "a">>, anchor |-> "start"]}
    /\ call.arg.rule.excludes = {[lit |-> <<"b">>, anchor |-> "end"]}

\* a worker leaves its write_batch call through the except clause on this step
WriteCaught ==
    /\ ThreadsAt(bw'.threads, "rpc") = ThreadsAt(bw.threads, "rpc") - 1
    /\ ThreadsAt(bw'.threads, "exit") = ThreadsAt(bw.threads, "exit") + 1

\* C25: in the worker loop a pop that times out (Empty) makes the worker exit
\* without recording an error, whereas a RuntimeError or ValueError of the write
\* is recorded in the error list.
C25_EmptyNotRecorded ==
    [][/\ PopTimesOut =>
            /\ bw'.errors = bw.errors
            /\ ThreadsAt(bw'.threads, "exit") = ThreadsAt(bw.threads, "exit") + 1
       /\ WriteCaught =>
            /\ Len(bw'.errors) = Len(bw.errors) + 1
            /\ bw'.errors[Len(bw'.errors)] \in {"RuntimeError", "ValueError"}]_vars

At(p) == ThreadsAt(bw.threads, p)

AtNext(p) == ThreadsAt(bw'.threads, p)

\* a call of write_batch in flight ends only by returning or raising, with its
\* request sent, and no writer closes over a call in flight
InFlightCompletes ==
    /\ AtNext("rpc") < At("rpc") =>
            /\ AtNext("rpc") = At("rpc") - 1
            /\ \E t \in Threads :
                    /\ t.pc = "rpc"
                    /\ batch_records(t.got) \subseteq
                            (kv'.write_issued \cup kv'.delete_issued)
    /\ (pc = "stop" /\ pc' # "stop") => At("rpc") = 0

\* C26 as stated: once an error is recorded, no worker issues a new write RPC:
\* each finishes the call it has in flight, which is never interrupted, and
\* exits at its next loop iteration, leaving the queued batches unwritten.
C26_NoNewRpcAfterError ==
    [][/\ bw.errors # <<>> =>
            /\ AtNext("rpc") <= At("rpc")
            /\ AtNext("loop") < At("loop") => AtNext("exit") = At("exit") + 1
       /\ InFlightCompletes]_vars

\* C26 as amended: once an error is recorded, no worker starts a new loop
\* iteration: a worker at the head of its loop exits, and a call in flight is
\* never interrupted; a worker that was already waiting in queue.get when the
\* error was recorded may still take one batch and write it before it exits.
C26_NoNewIterationAfterError ==
    [][/\ bw.errors # <<>> =>
            /\ AtNext("get") <= At("get")
            /\ AtNext("rpc") > At("rpc") =>
                    /\ AtNext("rpc") = At("rpc") + 1
                    /\ AtNext("get") = At("get") - 1
            /\ AtNext("loop") < At("loop") => AtNext("exit") = At("exit") + 1
       /\ AtNext("get") > At("get") => bw.errors = <<>>
       /\ InFlightCompletes]_vars

\* the workers of a writer have all left after an error, with a request sent
\* and a batch still in the queue
C26_Witness ==
    /\ pc = "stop"
    /\ all_joined
    /\ bw.errors # <<>>
    /\ BatchLeft
    /\ kv.write_issued # {}
    /\ At("exit") = write_max_workers

\* C27: on the write path the task is IN_PROGRESS, and IN_PROGRESS is what the DB
\* holds, from before pre_write runs until on_succeeded or on_failed; no KV
\* request and no flush is issued while the task is NOT_STARTED.
C27_InProgressBeforeWrites ==
    /\ (pc \notin {"should_write", "done"}) =>
            /\ task.state = "IN_PROGRESS"
            /\ db.task = "IN_PROGRESS"
            /\ hist.in_progress
    /\ (pc = "pre_write") => NoKvRequest
    /\ (task.state = "NOT_STARTED" \/ db.task = "NOT_STARTED") =>
            /\ NoKvRequest
            /\ kv.flush_calls = 0
            /\ bw.scope = "none"

\* a write has been issued under a committed IN_PROGRESS
C27_Witness ==
    /\ bw.scope = "phase1"
    /\ kv.write_issued # {}
    /\ task.state = "IN_PROGRESS"
    /\ db.task = "IN_PROGRESS"

\* the entry of the flush list for item i: the directory, with its trailing
\* slash, of an autoindex; the web_uri of any other item
FlushEntry(i) ==
    IF web_uri(i)[2] = autoindex_filename THEN <<web_uri(i)[1], "">> ELSE web_uri(i)

FlushEntries(ids) == [k \in 1..Len(ids) |-> FlushEntry(ids[k])]

Phase1Uris == {web_uri(i) : i \in {j \in TableIds : ~is_phase2(j)}}

QueuedFinal == SelectSeq(written_item_ids, IsFinal)

\* C28 as stated: the flush path list of a phase-2 commit has one entry for each
\* queued phase-2 item and nothing else (the directory with a trailing slash for
\* an autoindex, the web_uri otherwise), and never the path of a phase-1 item.
C28_FlushPathsOfQueuedItems ==
    /\ commit_mode = "phase2" => flush_paths = FlushEntries(QueuedFinal)
    /\ \A k \in 1..Len(flush_paths) : flush_paths[k] \notin Phase1Uris

\* C28 as amended: the flush path list of a phase-2 commit is empty until
\* queue_batches has returned for the phase-2 items, and from then on has one
\* entry for each selected phase-2 item, queued or not; when the phase-2 writer
\* closes without raising these are exactly the queued phase-2 items.  The list
\* never holds the path of a phase-1 item and stays empty in a phase-1 commit.
C28_FlushPathsOfFinalItems ==
    /\ flush_paths \in {<<>>, FlushEntries(final_items)}
    /\ \A k \in 1..Len(final_items) : is_phase2(final_items[k])
    /\ \A k \in 1..Len(flush_paths) : flush_paths[k] \notin Phase1Uris
    /\ commit_mode = "phase1" => flush_paths = <<>>
    /\ (kv.flush_calls > 0 \/ "phase2" \in hist.clean_scopes) =>
            \/ flush_paths = FlushEntries(final_items)
            \/ (hist.rollback /\ "phase1" \notin hist.clean_scopes)
    /\ "phase2" \in hist.clean_scopes =>
            /\ QueuedFinal = final_items
            /\ flush_paths = FlushEntries(QueuedFinal)

\* the flush after a rollback was given the path of a phase-2 item never queued
C28_Witness ==
    /\ kv.flush_calls = 1
    /\ hist.rollback
    /\ Len(flush_paths) = 2
    /\ flush_paths[1] = <<"d", "">>
    /\ Len(QueuedFinal) = 1

\* the ids held by the worker threads between get and the return of write_batch
InFlight == UNION {Range(t.got) : t \in Threads}

Issued == {i \in ItemIds : kv_record(i) \in kv.write_issued}

Acked == {i \in ItemIds : kv_record(i) \in kv.write_acked}

\* C29: when a _BatchWriter scope closes without raising, every batch that
\* queue_batches put on the queue was handed to write_batch exactly once and the
\* call returned normally: no batch is queued or held twice, none is handed to
\* write_batch again, and after a clean close none is left unwritten.
C29_CleanScopeWroteEveryBatch ==
    /\ "phase1" \in hist.clean_scopes => WrittenBodies \subseteq Acked
    /\ "phase2" \in hist.clean_scopes => Range(QueuedFinal) \subseteq Acked
    /\ bw.scope \in {"phase1", "phase2"} =>
            /\ Queued \cap InFlight = {}
            /\ (Queued \cup InFlight) \cap Issued = {}
            /\ \A t \in Threads : CopiesIn(t, bw.threads) = 1 \/ t.got = <<>>
            /\ \A j, k \in 1..Len(bw.queue) :
                    j # k /\ bw.queue[j] # Sentinel => bw.queue[j] # bw.queue[k]

\* C30: a publish that is COMMITTED or FAILED when the actor starts is never
\* moved to another state by that run, in the session or in the database, for
\* either phase and whatever the state or the deadline of the task.
C30_FinalPublishKept ==
    [][(AtEntry /\ publish_state \in {"COMMITTED", "FAILED"}) =>
            /\ publish_state' = publish_state
            /\ db'.publish = publish_state
            /\ pc' = "done"]_vars

WriteScopes == {"phase1", "phase2"}

Running == {t \in Threads : t.pc \notin {"exit", "dead"}}

\* C31: rollback deletes never race with the writes they undo.  A write scope
\* is left only when every one of its workers has ended; a delete request is
\* issued only by a worker of a delete scope; and once a delete request has
\* been issued no write request is issued and no write scope is open again.
C31_DeletesAfterWritersJoined ==
    [][/\ (bw.scope \in WriteScopes /\ bw'.scope # bw.scope) => Running = {}
       /\ (kv'.delete_issued # kv.delete_issued) =>
                /\ bw.scope = "rollback"
                /\ hist.rollback
       /\ (kv.delete_issued # {}) =>
                /\ kv'.write_issued = kv.write_issued
                /\ kv'.write_acked = kv.write_acked
                /\ bw'.scope \notin WriteScopes]_vars

\* a delete was issued for a write that failed in a scope with two workers busy
C31_Witness ==
    /\ kv.delete_issued # {}
    /\ Cardinality(kv.write_issued) = 2
    /\ Cardinality(kv.write_acked) = 1
    /\ hist.rollback
    /\ "phase2" \notin hist.clean_scopes

\* the step is the successful end of the run: on_succeeded and the db.commit
Succeeds == task'.state = "COMPLETE" /\ db'.task = "COMPLETE" /\ pc' = "done"

C33_StopTerminates == (pc = "stop") ~> (pc # "stop" /\ bw.threads = EmptyBag)

\* stop() with the queue full of an unwritten batch and every worker already
\* ended on an error: the sentinel puts have all timed out and the joins return
C33_Witness ==
    /\ pc = "stop"
    /\ sentinels = 0
    /\ queue_full
    /\ Head(bw.queue) # Sentinel
    /\ all_joined
    /\ Len(bw.errors) > write_max_workers
    /\ bw.errors[Len(bw.errors)] = "Full"

====
